---- MODULE Spec2Model ----
(***************************************************************************)
(* Minesweeper board model of mxschardt/arcade.                            *)
(*                                                                         *)
(* The repository holds two boards, both called Minesweeper:               *)
(*   - src/src/lib.rs          the sparse board: three HashSet<Position>   *)
(*                              (mines, open_cells, flagged_cells);        *)
(*   - src/src/minesweeper.rs  the dense board: a Vec<Cell> of             *)
(*                              width*height cells indexed row*width+col.  *)
(* A behaviour of this module constructs one of the two boards and then    *)
(* calls its operations.  Definitions modelling lib.rs are prefixed Lib_,  *)
(* those modelling minesweeper.rs are prefixed Ms_.                        *)
(***************************************************************************)
EXTENDS Integers, Sequences, FiniteSets, TLC

\* ---------------------------------------------------------------- bounds
\* Largest width and height handed to new.
MaxDim == 3
\* Largest mine_count handed to new.
MaxMineCount == 4
\* Number of reveal / flag / render calls made on a constructed board.
MaxCalls == 2
\* Boards of at most this many cells are driven one call further.
SmallBoard == 2

Dims == 0..MaxDim
MineCounts == 0..MaxMineCount
\* Coordinates handed to the operations: every in-range one of the largest
\* board and one beyond it.
Coord == 0..MaxDim
Positions == Coord \X Coord

VARIABLES
    board,          \* "none" | "sparse" (lib.rs) | "dense" (minesweeper.rs)
    pc,             \* "start" | "placing" | "ready" | "panicked"
    width,          \* Minesweeper.width
    height,         \* Minesweeper.height
    mine_count,     \* the mine_count argument of new
    mines,          \* lib.rs: Minesweeper.mines, a set of (usize, usize)
    open_cells,     \* lib.rs: Minesweeper.open_cells
    flagged_cells,  \* lib.rs: Minesweeper.flagged_cells
    mine_pos,       \* minesweeper.rs: the local `mines` of create_mine_positions
    cells,          \* minesweeper.rs: Minesweeper.cells; cells[idx + 1] is index idx
    call,           \* the last call made: [op, row, col]
    ret,            \* what the last call returned
    ncalls,         \* calls made on the constructed board
    prev,           \* history: the board's fields as the last call found them
    prev_call,      \* history: the call made before the last one
    returned        \* history: lib.rs, every <<position, result>> of reveal_cell

vars == <<board, pc, width, height, mine_count, mines, open_cells,
          flagged_cells, mine_pos, cells, call, ret, ncalls, prev, prev_call, returned>>

boardVars == <<board, width, height, mine_count>>
libVars == <<mines, open_cells, flagged_cells>>
msVars == <<mine_pos, cells>>

Call(op, a, b) == [op |-> op, row |-> a, col |-> b]
\* The board's fields, recorded by every call before it acts.
Snapshot ==
    [mines |-> mines, open_cells |-> open_cells, flagged_cells |-> flagged_cells,
     cells |-> cells]
Unit == [kind |-> "unit"]
\* Calls made on the board under exploration.
CallBudget ==
    IF 0 < width * height /\ width * height <= SmallBoard
    THEN MaxCalls + 1
    ELSE MaxCalls

\* ------------------------------------------------------- lib.rs (sparse)

\* Lib_get_neighbors_pos with the upper ends one short: x + 1 and y + 1 are
\* left out.
Mut_get_neighbors_pos(p) ==
    LET x == p[1]
        y == p[2]
        x_min == IF x > 0 THEN x - 1 ELSE x
        x_max == IF x >= width THEN x ELSE x + 1
        y_min == IF y > 0 THEN y - 1 ELSE y
        y_max == IF y >= height THEN y ELSE y + 1
    IN  { pos \in (x_min..(x_max - 1)) \X (y_min..(y_max - 1)) : pos # p }

\* lib.rs get_neighbors_pos: the half-open ranges x_min..x_max, y_min..y_max
\* without the centre.
Lib_get_neighbors_pos(p) ==
    LET x == p[1]
        y == p[2]
        x_min == IF x > 0 THEN x - 1 ELSE x
        x_max == IF x >= width THEN x ELSE x + 2
        y_min == IF y > 0 THEN y - 1 ELSE y
        y_max == IF y >= height THEN y ELSE y + 2
    IN  { pos \in (x_min..(x_max - 1)) \X (y_min..(y_max - 1)) : pos # p }

\* lib.rs count_mines: a fold over the neighbours, one per mine among them.
Lib_count_mines(p) ==
    Cardinality({ item \in Lib_get_neighbors_pos(p) : item \in mines })

\* Lib_reveal_result counting only the mines not yet opened.
Mut_reveal_result(p) ==
    IF p \in mines
    THEN [kind |-> "Mine"]
    ELSE [kind |-> "MineCount",
          n |-> Cardinality({ item \in Lib_get_neighbors_pos(p) :
                                item \in mines \ open_cells })]

\* lib.rs reveal_cell: its return value.
Lib_reveal_result(p) ==
    IF p \in mines
    THEN [kind |-> "Mine"]
    ELSE [kind |-> "MineCount", n |-> Lib_count_mines(p)]

\* Lib_flag_cell_set without the remove: a flag, once set, stays.
Mut_flag_cell_set(flags, p) == flags \cup {p}

\* lib.rs flag_cell: insert, and remove when the position was already there.
Lib_flag_cell_set(flags, p) ==
    IF p \notin flags THEN flags \cup {p} ELSE flags \ {p}

\* Lib_format with the two tests in the other order: a flag hides an opened
\* cell.
Mut_format(open, flags, p) ==
    IF p \in flags
    THEN "f"
    ELSE IF p \in open
         THEN IF p \in mines THEN "*" ELSE ToString(Lib_count_mines(p))
         ELSE "#"

\* lib.rs format_cell, read over given open and flagged sets.
Lib_format(open, flags, p) ==
    IF p \in open
    THEN IF p \in mines THEN "*" ELSE ToString(Lib_count_mines(p))
    ELSE IF p \in flags THEN "f" ELSE "#"

Lib_format_cell(p) == Lib_format(open_cells, flagged_cells, p)

\* lib.rs Display::fmt: rows i in 0..height, each of the symbols j in 0..width
\* (the padding around a symbol and the closing empty line are left out).
Lib_fmt ==
    [i \in 1..height |-> [j \in 1..width |-> Lib_format_cell(<<i - 1, j - 1>>)]]

\* lib.rs new, up to the placement loop.
Lib_new(w, h, mc) ==
    /\ pc = "start"
    /\ board' = "sparse"
    /\ width' = w
    /\ height' = h
    /\ mine_count' = mc
    /\ mines' = {}
    /\ pc' = "placing"
    /\ call' = Call("new", 0, 0)
    /\ UNCHANGED <<open_cells, flagged_cells, msVars, ret, ncalls, prev, prev_call, returned>>

\* Lib_place with both ranges one short: the last column and the last row are
\* never drawn.
Mut_place ==
    /\ board = "sparse"
    /\ pc = "placing"
    /\ Cardinality(mines) < mine_count
    /\ IF width = 0 \/ height = 0
       THEN /\ pc' = "panicked"
            /\ UNCHANGED mines
       ELSE /\ \E rand_width \in 0..(width - 2), rand_height \in 0..(height - 2) :
                  mines' = mines \cup {<<rand_width, rand_height>>}
            /\ UNCHANGED pc
    /\ UNCHANGED <<boardVars, open_cells, flagged_cells, msVars, call, ret, ncalls, prev, prev_call, returned>>

\* lib.rs new: one iteration of `while mines.len() < mine_count`.  gen_range
\* panics on the empty range 0..0.
Lib_place ==
    /\ board = "sparse"
    /\ pc = "placing"
    /\ Cardinality(mines) < mine_count
    /\ IF width = 0 \/ height = 0
       THEN /\ pc' = "panicked"
            /\ UNCHANGED mines
       ELSE /\ \E rand_width \in 0..(width - 1), rand_height \in 0..(height - 1) :
                  mines' = mines \cup {<<rand_width, rand_height>>}
            /\ UNCHANGED pc
    /\ UNCHANGED <<boardVars, open_cells, flagged_cells, msVars, call, ret, ncalls, prev, prev_call, returned>>

\* lib.rs new: the loop's exit; the board is returned with empty open and
\* flagged sets.
Lib_new_return ==
    /\ board = "sparse"
    /\ pc = "placing"
    /\ ~(Cardinality(mines) < mine_count)
    /\ open_cells' = {}
    /\ flagged_cells' = {}
    /\ pc' = "ready"
    /\ UNCHANGED <<boardVars, mines, msVars, call, ret, ncalls, prev, prev_call, returned>>

\* Lib_reveal_cell that also opens the neighbours of a cell with no adjacent
\* mine.
Mut_reveal_cell(p) ==
    /\ board = "sparse"
    /\ pc = "ready"
    /\ ncalls < CallBudget
    /\ open_cells' = open_cells \cup {p} \cup
                        (IF p \notin mines /\ Lib_count_mines(p) = 0
                         THEN Lib_get_neighbors_pos(p)
                         ELSE {})
    /\ ret' = Lib_reveal_result(p)
    /\ call' = Call("reveal_cell", p[1], p[2])
    /\ ncalls' = ncalls + 1
    /\ prev' = Snapshot
    /\ prev_call' = call
    /\ returned' = returned \cup {<<p, Lib_reveal_result(p)>>}
    /\ UNCHANGED <<boardVars, pc, mines, flagged_cells, msVars>>

\* lib.rs reveal_cell: the position is inserted into open_cells and Mine or
\* MineCount(count_mines(p)) is returned.
Lib_reveal_cell(p) ==
    /\ board = "sparse"
    /\ pc = "ready"
    /\ ncalls < CallBudget
    /\ open_cells' = open_cells \cup {p}
    /\ ret' = Lib_reveal_result(p)
    /\ call' = Call("reveal_cell", p[1], p[2])
    /\ ncalls' = ncalls + 1
    /\ prev' = Snapshot
    /\ prev_call' = call
    /\ returned' = returned \cup {<<p, Lib_reveal_result(p)>>}
    /\ UNCHANGED <<boardVars, pc, mines, flagged_cells, msVars>>

Lib_flag_cell(p) ==
    /\ board = "sparse"
    /\ pc = "ready"
    /\ ncalls < CallBudget
    /\ flagged_cells' = Lib_flag_cell_set(flagged_cells, p)
    /\ ret' = Unit
    /\ call' = Call("toggle_flag", p[1], p[2])
    /\ ncalls' = ncalls + 1
    /\ prev' = Snapshot
    /\ prev_call' = call
    /\ UNCHANGED <<boardVars, pc, mines, open_cells, msVars, returned>>

\* lib.rs Display::fmt as a call: the rows written.
Lib_render ==
    /\ board = "sparse"
    /\ pc = "ready"
    /\ ncalls < CallBudget
    /\ ret' = [kind |-> "Ok", out |-> Lib_fmt]
    /\ call' = Call("render", 0, 0)
    /\ ncalls' = ncalls + 1
    /\ prev' = Snapshot
    /\ prev_call' = call
    /\ UNCHANGED <<boardVars, pc, libVars, msVars, returned>>

\* ------------------------------------------------ minesweeper.rs (dense)

Closed == "Closed"
Revealed == "Revealed"
Flagged == "Flagged"
Mine == "Mine"
MineCount == "MineCount"

\* minesweeper.rs get_index (u32 arithmetic; the boards here are far from its
\* overflow).
Ms_get_index(row, column) == row * width + column

\* minesweeper.rs get_cell / get_cell_mut: Vec::get on the index; Some exactly
\* when the index is below cells.len().
Ms_has_cell(row, column) == Ms_get_index(row, column) < Len(cells)

Ms_get_cell(row, column) == cells[Ms_get_index(row, column) + 1]

\* Ms_reveal_cells that reveals Closed cells only: a flag is not overridden.
Mut_reveal_cells(row, col) ==
    IF Ms_has_cell(row, col) /\ Ms_get_cell(row, col).state = Closed
    THEN [cells EXCEPT ![Ms_get_index(row, col) + 1].state = Revealed]
    ELSE cells

\* minesweeper.rs reveal_cell: the cells after the call.
Ms_reveal_cells(row, col) ==
    IF Ms_has_cell(row, col)
    THEN [cells EXCEPT ![Ms_get_index(row, col) + 1].state = Revealed]
    ELSE cells

\* Ms_toggled without the `_ => {}` arm: every cell that is not Flagged
\* becomes Flagged.
Mut_toggled(state) == IF state = Flagged THEN Closed ELSE Flagged

\* minesweeper.rs toggle_flag: the match on the cell's state.
Ms_toggled(state) ==
    CASE state = Closed -> Flagged
      [] state = Flagged -> Closed
      [] OTHER -> state

\* minesweeper.rs toggle_flag: the cells after the call.
Ms_toggle_cells(cs, row, column) ==
    IF Ms_get_index(row, column) < Len(cs)
    THEN [cs EXCEPT ![Ms_get_index(row, column) + 1].state = Ms_toggled(@)]
    ELSE cs

\* minesweeper.rs count_mines: a fold over the inclusive ranges
\* row_min..=row_max, col_min..=col_max without the centre; a position with no
\* cell adds nothing.  (Used on boards with cells, where width, height > 0.)
Ms_count_mines(row, col) ==
    LET row_min == IF row > 0 THEN row - 1 ELSE row
        row_max == IF row >= width - 1 THEN row ELSE row + 1
        col_min == IF col > 0 THEN col - 1 ELSE col
        col_max == IF col >= height - 1 THEN col ELSE col + 1
    IN  Cardinality({ pos \in (row_min..row_max) \X (col_min..col_max) :
                        /\ pos # <<row, col>>
                        /\ Ms_has_cell(pos[1], pos[2])
                        /\ Ms_get_cell(pos[1], pos[2]).value = Mine })

\* minesweeper.rs Display::fmt: the match on count_mines, 1 to 8 by name and
\* "0" for everything else.
Ms_digit(n) ==
    CASE n = 1 -> "1" [] n = 2 -> "2" [] n = 3 -> "3" [] n = 4 -> "4"
      [] n = 5 -> "5" [] n = 6 -> "6" [] n = 7 -> "7" [] n = 8 -> "8"
      [] OTHER -> "0"

\* Ms_symbol that looks at the value before the state: a mine shows as "*"
\* whether or not its cell is Revealed.
Mut_symbol(row, col) ==
    LET cell == Ms_get_cell(row, col)
    IN  CASE cell.value = Mine -> "*"
          [] cell.state = Revealed -> Ms_digit(Ms_count_mines(row, col))
          [] cell.state = Flagged -> "F"
          [] cell.state = Closed -> "#"

\* minesweeper.rs Display::fmt: the symbol of the cell at (row, col).
Ms_symbol(row, col) ==
    LET cell == Ms_get_cell(row, col)
    IN  CASE cell.state = Revealed ->
               (IF cell.value = Mine THEN "*" ELSE Ms_digit(Ms_count_mines(row, col)))
          [] cell.state = Flagged -> "F"
          [] cell.state = Closed -> "#"

\* minesweeper.rs Display::fmt: the loops `for row in 0..self.width`,
\* `for col in 0..self.height`; the first position with no cell ends the
\* rendering with Err, what was written before it stays written.
Ms_fmt_visited == (0..(width - 1)) \X (0..(height - 1))

Ms_fmt_before(p, q) == p[1] < q[1] \/ (p[1] = q[1] /\ p[2] < q[2])

Ms_fmt_missing == { p \in Ms_fmt_visited : ~Ms_has_cell(p[1], p[2]) }

Ms_fmt ==
    IF Ms_fmt_missing = {}
    THEN [kind |-> "Ok",
          out |-> [r \in 1..width |-> [c \in 1..height |-> Ms_symbol(r - 1, c - 1)]]]
    ELSE LET stop == CHOOSE p \in Ms_fmt_missing :
                        \A q \in Ms_fmt_missing : q = p \/ Ms_fmt_before(p, q)
         IN  [kind |-> "Err",
              out |-> [r \in 1..(stop[1] + 1) |->
                         [c \in 1..(IF r - 1 < stop[1] THEN height ELSE stop[2]) |->
                            Ms_symbol(r - 1, c - 1)]]]

\* minesweeper.rs new, up to the loop of create_mine_positions.
Ms_new(w, h, mc) ==
    /\ pc = "start"
    /\ board' = "dense"
    /\ width' = w
    /\ height' = h
    /\ mine_count' = mc
    /\ mine_pos' = {}
    /\ pc' = "placing"
    /\ call' = Call("new", 0, 0)
    /\ UNCHANGED <<libVars, cells, ret, ncalls, prev, prev_call, returned>>

\* minesweeper.rs create_mine_positions: one iteration of
\* `while mines.len() < mine_count`.  gen_range panics on the empty range.
Ms_create_mine_positions ==
    /\ board = "dense"
    /\ pc = "placing"
    /\ Cardinality(mine_pos) < mine_count
    /\ IF height * width = 0
       THEN /\ pc' = "panicked"
            /\ UNCHANGED mine_pos
       ELSE /\ \E mine \in 0..(height * width - 1) : mine_pos' = mine_pos \cup {mine}
            /\ UNCHANGED pc
    /\ UNCHANGED <<boardVars, libVars, cells, call, ret, ncalls, prev, prev_call, returned>>

\* Ms_new_cells with the index off by one: cell idx is a mine when idx + 1 was
\* drawn.
Mut_new_cells(w, h, ms) ==
    [i \in 1..(h * w) |->
        [state |-> Closed, value |-> IF i \in ms THEN Mine ELSE MineCount]]

\* minesweeper.rs new: the cells built from the mine positions, all Closed.
Ms_new_cells(w, h, ms) ==
    [i \in 1..(h * w) |->
        [state |-> Closed, value |-> IF (i - 1) \in ms THEN Mine ELSE MineCount]]

Ms_new_return ==
    /\ board = "dense"
    /\ pc = "placing"
    /\ ~(Cardinality(mine_pos) < mine_count)
    /\ cells' = Ms_new_cells(width, height, mine_pos)
    /\ mine_pos' = {}
    /\ pc' = "ready"
    /\ UNCHANGED <<boardVars, libVars, call, ret, ncalls, prev, prev_call, returned>>

Ms_reveal_cell(row, col) ==
    /\ board = "dense"
    /\ pc = "ready"
    /\ ncalls < CallBudget
    /\ cells' = Ms_reveal_cells(row, col)
    /\ ret' = Unit
    /\ call' = Call("reveal_cell", row, col)
    /\ ncalls' = ncalls + 1
    /\ prev' = Snapshot
    /\ prev_call' = call
    /\ UNCHANGED <<boardVars, pc, libVars, mine_pos, returned>>

Ms_toggle_flag(row, column) ==
    /\ board = "dense"
    /\ pc = "ready"
    /\ ncalls < CallBudget
    /\ cells' = Ms_toggle_cells(cells, row, column)
    /\ ret' = Unit
    /\ call' = Call("toggle_flag", row, column)
    /\ ncalls' = ncalls + 1
    /\ prev' = Snapshot
    /\ prev_call' = call
    /\ UNCHANGED <<boardVars, pc, libVars, mine_pos, returned>>

\* minesweeper.rs render: Display::fmt as a call.  On Err, to_string panics;
\* the board is left as it is.
Ms_render ==
    /\ board = "dense"
    /\ pc = "ready"
    /\ ncalls < CallBudget
    /\ ret' = Ms_fmt
    /\ call' = Call("render", 0, 0)
    /\ ncalls' = ncalls + 1
    /\ prev' = Snapshot
    /\ prev_call' = call
    /\ UNCHANGED <<boardVars, pc, libVars, msVars, returned>>

\* ------------------------------------------------------- specification

Init ==
    /\ board = "none"
    /\ pc = "start"
    /\ width = 0
    /\ height = 0
    /\ mine_count = 0
    /\ mines = {}
    /\ open_cells = {}
    /\ flagged_cells = {}
    /\ mine_pos = {}
    /\ cells = <<>>
    /\ call = Call("none", 0, 0)
    /\ ret = Unit
    /\ ncalls = 0
    /\ prev = [mines |-> {}, open_cells |-> {}, flagged_cells |-> {}, cells |-> <<>>]
    /\ prev_call = Call("none", 0, 0)
    /\ returned = {}

Next ==
    \/ \E w \in Dims, h \in Dims, mc \in MineCounts : Lib_new(w, h, mc)
    \/ Lib_place
    \/ Lib_new_return
    \/ \E p \in Positions : Lib_reveal_cell(p)
    \/ \E p \in Positions : Lib_flag_cell(p)
    \/ Lib_render
    \/ \E w \in Dims, h \in Dims, mc \in MineCounts : Ms_new(w, h, mc)
    \/ Ms_create_mine_positions
    \/ Ms_new_return
    \/ \E row \in Coord, col \in Coord : Ms_reveal_cell(row, col)
    \/ \E row \in Coord, col \in Coord : Ms_toggle_flag(row, col)
    \/ Ms_render

Spec == Init /\ [][Next]_vars

\* ------------------------------------------------------------ properties

\* The grid: rows below height, columns below width.
InGrid(row, col) == row < height /\ col < width
Grid == { p \in Positions : InGrid(p[1], p[2]) }

Abs(n) == IF n < 0 THEN -n ELSE n
\* q is one of the eight positions around p.
Adjacent(p, q) == p # q /\ Abs(p[1] - q[1]) <= 1 /\ Abs(p[2] - q[2]) <= 1

\* The last step was a call of op on the constructed board.
Called(op) == pc = "ready" /\ ncalls > 0 /\ call.op = op
\* The position the last call was given.
At == <<call.row, call.col>>

\* minesweeper.rs: the indices of the cells whose value is Mine.
MineCells(cs) == { i \in DOMAIN cs : cs[i].value = Mine }
\* minesweeper.rs: the indices of the cells that are Flagged.
FlaggedCells(cs) == { i \in DOMAIN cs : cs[i].state = Flagged }
\* minesweeper.rs: the place in cells of the cell at p of the grid.
CellAt(p) == p[1] * width + p[2] + 1

\* lib.rs: the positions new draws from, 0..width by 0..height.
DrawnFrom == (0..(width - 1)) \X (0..(height - 1))

\* lib.rs format_cell: the state of a cell as its branches read it, open
\* before flagged.
Lib_state(open, flags, p) ==
    IF p \in open THEN Revealed ELSE IF p \in flags THEN Flagged ELSE Closed

\* C1: after new returns, exactly mine_count cells have value Mine (the dense
\* board holds width*height cells, mine_count of them mines; the sparse board
\* holds mine_count mine positions, each drawn from 0..width by 0..height), and
\* every reveal_cell, toggle_flag and render call leaves the set of mine cells
\* as it found it.
C1_MineCountFixed ==
    /\ (board = "dense" /\ pc = "ready") =>
          /\ Len(cells) = width * height
          /\ Cardinality(MineCells(cells)) = mine_count
          /\ ncalls > 0 => MineCells(cells) = MineCells(prev.cells)
    /\ (board = "sparse" /\ pc = "ready") =>
          /\ Cardinality(mines) = mine_count
          /\ mines \subseteq DrawnFrom
          /\ ncalls > 0 => mines = prev.mines

\* C1 witness: a dense board with two mines, one of them revealed by the last
\* of the calls.
C1_Witness ==
    /\ board = "dense" /\ Called("reveal_cell")
    /\ mine_count = 2 /\ ncalls = MaxCalls
    /\ InGrid(call.row, call.col)
    /\ cells[CellAt(At)] = [state |-> Revealed, value |-> Mine]

\* C2: on the dense board, for every board shape and every cell (row, col)
\* with row < height and col < width, count_mines(row, col) is the number of
\* mine cells among the in-grid positions around it, each counted once.
C2_CountMinesIsNeighbourMines ==
    (board = "dense" /\ pc = "ready") =>
        \A p \in Grid :
            Ms_count_mines(p[1], p[2]) =
                Cardinality({ q \in Grid : /\ Adjacent(p, q)
                                           /\ cells[CellAt(q)].value = Mine })

\* C3: for every in-range cell, get_neighbors_pos yields exactly the in-grid
\* positions around it: none outside the grid, none skipped.
C3_NeighboursInGrid ==
    (board = "sparse" /\ pc = "ready") =>
        \A p \in Grid :
            Lib_get_neighbors_pos(p) = { q \in Grid : Adjacent(p, q) }

\* C4: a reveal_cell or toggle_flag call with row >= height or col >= width
\* leaves the state of every in-grid cell as it was.
C4_OutOfRangeChangesNothing ==
    ((Called("reveal_cell") \/ Called("toggle_flag")) /\ ~InGrid(call.row, call.col)) =>
        /\ board = "dense" =>
              \A p \in Grid : cells[CellAt(p)].state = prev.cells[CellAt(p)].state
        /\ board = "sparse" =>
              \A p \in Grid : Lib_state(open_cells, flagged_cells, p)
                                = Lib_state(prev.open_cells, prev.flagged_cells, p)

\* C5: new with width, height > 0 and mine_count > width*height fails with
\* TooManyMines: it does not enter the placement loop and returns no board.
C5_TooManyMinesRejected ==
    (board # "none" /\ width > 0 /\ height > 0 /\ mine_count > width * height)
        => pc = "TooManyMines"

\* What the code does instead: with mine_count > width*height new never
\* returns, the loop runs on with every position already drawn.
TooManyMinesNeverReady ==
    (board # "none" /\ mine_count > width * height) => pc # "ready"

\* C6: Revealed is absorbing: whatever call is made, toggle_flag on the cell
\* included, a cell that was Revealed when the call was made is Revealed
\* after it.
C6_RevealedAbsorbing ==
    (pc = "ready" /\ ncalls > 0) =>
        /\ board = "dense" =>
              \A i \in DOMAIN cells :
                  prev.cells[i].state = Revealed => cells[i].state = Revealed
        /\ board = "sparse" =>
              \A p \in Positions :
                  Lib_state(prev.open_cells, prev.flagged_cells, p) = Revealed
                      => Lib_state(open_cells, flagged_cells, p) = Revealed

\* C6 witness: toggle_flag was just called on an in-range cell that the call
\* before it had revealed.
C6_Witness ==
    /\ Called("toggle_flag") /\ ncalls = 2
    /\ InGrid(call.row, call.col)
    /\ \/ /\ board = "dense"
          /\ prev.cells[CellAt(At)].state = Revealed
       \/ /\ board = "sparse"
          /\ At \in prev.open_cells

\* C7: a toggle_flag call on an in-range unrevealed cell makes a Closed cell
\* Flagged and a Flagged cell Closed, and calling it again on the same cell
\* gives back the board the first call found, the number of flagged cells
\* included.
C7_FlagIsAToggle ==
    (Called("toggle_flag") /\ InGrid(call.row, call.col)) =>
        /\ board = "dense" =>
              LET before == prev.cells[CellAt(At)].state
                  after == cells[CellAt(At)].state
                  again == Ms_toggle_cells(cells, call.row, call.col)
              IN  /\ before = Closed => after = Flagged
                  /\ before = Flagged => after = Closed
                  /\ before # Revealed =>
                        /\ again = prev.cells
                        /\ Cardinality(FlaggedCells(again))
                             = Cardinality(FlaggedCells(prev.cells))
        /\ board = "sparse" =>
              LET before == Lib_state(prev.open_cells, prev.flagged_cells, At)
                  after == Lib_state(open_cells, flagged_cells, At)
                  again == Lib_flag_cell_set(flagged_cells, At)
              IN  /\ before = Closed => after = Flagged
                  /\ before = Flagged => after = Closed
                  /\ before # Revealed =>
                        /\ again = prev.flagged_cells
                        /\ Lib_state(open_cells, again, At) = before
                        /\ Cardinality(again) = Cardinality(prev.flagged_cells)

\* C7 witness: the second of two toggle_flag calls found the in-range cell
\* flagged (by the first call) and made it Closed again: no cell is flagged or
\* open.
C7_Witness ==
    /\ board = "sparse" /\ Called("toggle_flag") /\ ncalls = 2
    /\ InGrid(call.row, call.col)
    /\ prev.flagged_cells = {At}
    /\ flagged_cells = {} /\ open_cells = {}

\* C8: reveal_cell on an in-range cell leaves it Revealed, whatever it was
\* before, and a flagged cell is then shown as revealed ("*" or a digit), not
\* as flagged or closed.
C8_RevealSetsRevealed ==
    (Called("reveal_cell") /\ InGrid(call.row, call.col)) =>
        /\ board = "dense" =>
              /\ cells[CellAt(At)].state = Revealed
              /\ Ms_symbol(call.row, call.col) \notin {"F", "#"}
        /\ board = "sparse" =>
              /\ Lib_state(open_cells, flagged_cells, At) = Revealed
              /\ Lib_format_cell(At) \notin {"f", "F", "#"}

\* C8 witness: the second call revealed the cell the first call had flagged.
C8_Witness ==
    /\ Called("reveal_cell") /\ ncalls = 2
    /\ InGrid(call.row, call.col)
    /\ \/ /\ board = "dense"
          /\ prev.cells[CellAt(At)].state = Flagged
       \/ /\ board = "sparse"
          /\ prev.flagged_cells = {At} /\ prev.open_cells = {}

\* The symbol the rendering is to show for a cell.
Shown(state, isMine, count) ==
    CASE state = Revealed -> (IF isMine THEN "*" ELSE ToString(count))
      [] state = Flagged -> "F"
      [] state = Closed -> "#"

ShownAt(p) ==
    IF board = "dense"
    THEN Shown(cells[CellAt(p)].state, cells[CellAt(p)].value = Mine,
               Ms_count_mines(p[1], p[2]))
    ELSE Shown(Lib_state(open_cells, flagged_cells, p), p \in mines,
               Lib_count_mines(p))

\* C9: rendering a width x height board (width, height > 0) succeeds and gives
\* height rows of width symbols, the symbol at (row, col) being that of cell
\* (row, col): "*" for a revealed mine, the digit count_mines(row, col) for a
\* revealed empty cell, "F" for a flagged and "#" for a closed one; and it
\* changes nothing of the board.
C9_RenderShowsEveryCell ==
    (Called("render") /\ width > 0 /\ height > 0) =>
        /\ ret = [kind |-> "Ok",
                  out |-> [i \in 1..height |->
                             [j \in 1..width |-> ShownAt(<<i - 1, j - 1>>)]]]
        /\ Snapshot = prev

\* C10: reveal_cell(p) of the sparse board returns Mine exactly when p is a
\* mine, and otherwise MineCount(n) with n the number of mines on the eight
\* positions around p; on a board whose every cell is a mine it returns Mine
\* for every cell.
C10_RevealResult ==
    (board = "sparse" /\ Called("reveal_cell")) =>
        /\ (ret.kind = "Mine") <=> (At \in mines)
        /\ At \notin mines =>
              ret = [kind |-> "MineCount",
                     n |-> Cardinality({ q \in mines : Adjacent(At, q) })]
        /\ (DrawnFrom \subseteq mines /\ At \in DrawnFrom) => ret.kind = "Mine"

\* C10 witness: reveal_cell returned MineCount(2) for an in-range cell with a
\* mine at its right and one below it.
C10_Witness ==
    /\ board = "sparse" /\ Called("reveal_cell")
    /\ InGrid(call.row, call.col)
    /\ ret = [kind |-> "MineCount", n |-> 2]
    /\ <<call.row + 1, call.col>> \in mines
    /\ <<call.row, call.col + 1>> \in mines

\* C11: reveal_cell is idempotent on an in-range non-mine cell.  A reveal_cell
\* call that finds the cell already revealed leaves every field of the board
\* as it found it, so the board is as the first call left it (the cell
\* Revealed, C6), whatever calls were made in between; and on the sparse
\* board, whose reveal_cell returns a value, every call made on the cell so
\* far returned the same MineCount.
C11_RevealIdempotent ==
    (Called("reveal_cell") /\ InGrid(call.row, call.col)) =>
        /\ (/\ board = "dense"
            /\ prev.cells[CellAt(At)].value # Mine
            /\ prev.cells[CellAt(At)].state = Revealed)
           => cells = prev.cells
        /\ (board = "sparse" /\ At \notin mines) =>
              /\ At \in prev.open_cells =>
                    /\ mines = prev.mines
                    /\ open_cells = prev.open_cells
                    /\ flagged_cells = prev.flagged_cells
              /\ \A r \in returned :
                    r[1] = At => r[2].kind = "MineCount" /\ r[2] = ret

\* C11 witness: on the sparse board a non-mine cell with a mine next to it
\* was revealed, then another call was made, then the cell was revealed
\* again.
C11_Witness ==
    /\ board = "sparse"
    /\ Called("reveal_cell")
    /\ InGrid(call.row, call.col)
    /\ ncalls = 3
    /\ At \in prev.open_cells
    /\ At \notin mines
    /\ prev_call.op \in {"reveal_cell", "toggle_flag"}
    /\ <<prev_call.row, prev_call.col>> # At
    /\ ret.kind = "MineCount"
    /\ ret.n > 0

\* C12: a reveal_cell or toggle_flag call with row >= height or col >= width
\* reports OutOfBounds to its caller (stated for boards that have cells).
C12_OutOfRangeReported ==
    (/\ Called("reveal_cell") \/ Called("toggle_flag")
     /\ width > 0 /\ height > 0
     /\ ~InGrid(call.row, call.col))
    => ret.kind = "OutOfBounds"

\* C13: new with width = 0 or height = 0 ends in InvalidDimensions for every
\* mine_count; it neither returns a board nor ends any other way.
C13_ZeroDimensionsRejected ==
    (/\ board # "none"
     /\ width = 0 \/ height = 0
     /\ pc # "placing")
    => pc = "InvalidDimensions"

\* ------------------------------------------------- construction, fairly
\* The construction steps alone.
NextPlace ==
    \/ \E w \in Dims, h \in Dims, mc \in MineCounts : Lib_new(w, h, mc)
    \/ Lib_place
    \/ Lib_new_return
    \/ \E w \in Dims, h \in Dims, mc \in MineCounts : Ms_new(w, h, mc)
    \/ Ms_create_mine_positions
    \/ Ms_new_return

\* lib.rs new: the iteration that draws position q for the first time.
Lib_draws(q) == Lib_place /\ q \notin mines /\ q \in mines'

\* minesweeper.rs create_mine_positions: the iteration that draws index i for
\* the first time.
Ms_draws(i) == Ms_create_mine_positions /\ i \notin mine_pos /\ i \in mine_pos'

\* Fair sampling: a position that stays drawable and undrawn is drawn; a loop
\* whose condition is false is left.
FairSampling ==
    /\ \A q \in Positions : WF_vars(Lib_draws(q))
    /\ \A i \in 0..(MaxDim * MaxDim - 1) : WF_vars(Ms_draws(i))
    /\ WF_vars(Lib_new_return)
    /\ WF_vars(Ms_new_return)

SpecPlace == Init /\ [][NextPlace]_vars /\ FairSampling

\* The positions the placement loop holds.
Placed == IF board = "sparse" THEN mines ELSE mine_pos

Placeable == width > 0 /\ height > 0 /\ mine_count <= width * height

\* C14: for width > 0, height > 0 and mine_count <= width*height the
\* placement loop of new terminates under fair sampling, and it stops exactly
\* when it holds mine_count distinct positions: it never holds more, and the
\* step that leaves it is taken with exactly mine_count.
C14_PlacementTerminates ==
    /\ (pc = "placing" /\ Placeable) ~> (pc = "ready")
    /\ [](pc = "placing" => Cardinality(Placed) <= mine_count)
    /\ [][(pc = "placing" /\ pc' = "ready")
            => Cardinality(Placed) = mine_count]_vars

\* C14 witness: new returned a board whose every cell is a mine, so the loop
\* ran until each of the four positions had been drawn.
C14_Witness ==
    /\ pc = "ready"
    /\ ncalls = 0
    /\ width = 2 /\ height = 2
    /\ mine_count = 4
    /\ \/ board = "sparse" /\ Cardinality(mines) = 4
       \/ board = "dense" /\ Cardinality(MineCells(cells)) = 4

\* C15: every mine of a board returned by new lies inside the grid in the
\* (row, col) reading of reveal_cell, flagging and rendering: row < height
\* and col < width.  A dense mine at index i is the cell (i \div width,
\* i % width).
C15_MinesInGrid ==
    pc = "ready" =>
        /\ board = "sparse" => \A m \in mines : InGrid(m[1], m[2])
        /\ board = "dense" =>
              \A i \in MineCells(cells) :
                  InGrid((i - 1) \div width, (i - 1) % width)

\* C16: no cascading.  A reveal_cell or toggle_flag call on an in-range
\* position changes the state of at most that cell: every other cell keeps
\* its state, and every cell keeps its value (the mines stay where they are),
\* also when the revealed cell has no adjacent mine.
C16_NoCascade ==
    (/\ Called("reveal_cell") \/ Called("toggle_flag")
     /\ InGrid(call.row, call.col))
    =>  /\ board = "dense" =>
              /\ Len(cells) = Len(prev.cells)
              /\ \A i \in DOMAIN cells :
                    /\ cells[i].value = prev.cells[i].value
                    /\ i # CellAt(At) => cells[i].state = prev.cells[i].state
        /\ board = "sparse" =>
              /\ mines = prev.mines
              /\ \A p \in Positions \ {At} :
                    /\ p \in open_cells <=> p \in prev.open_cells
                    /\ p \in flagged_cells <=> p \in prev.flagged_cells

\* C16 witness: reveal_cell was called on an in-range cell with no adjacent
\* mine, on a board that has mines, and a cell next to it is still Closed.
C16_Witness ==
    /\ Called("reveal_cell")
    /\ InGrid(call.row, call.col)
    /\ mine_count > 0
    /\ \/ /\ board = "sparse"
          /\ ret = [kind |-> "MineCount", n |-> 0]
          /\ \E q \in Grid :
                Adjacent(At, q) /\ Lib_state(open_cells, flagged_cells, q) = Closed
       \/ /\ board = "dense"
          /\ cells[CellAt(At)].value # Mine
          /\ Ms_count_mines(call.row, call.col) = 0
          /\ \E q \in Grid : Adjacent(At, q) /\ cells[CellAt(q)].state = Closed

\* ------------------------------------------------- both boards, in step
\* One sparse and one dense board are constructed with the same arguments and
\* the same mines and are handed the same in-range calls.

\* Both new: the arguments are stored, both mine sets start empty.
Eq_new(w, h, mc) ==
    /\ pc = "start"
    /\ board' = "both"
    /\ width' = w
    /\ height' = h
    /\ mine_count' = mc
    /\ mines' = {}
    /\ mine_pos' = {}
    /\ pc' = "placing"
    /\ call' = Call("new", 0, 0)
    /\ UNCHANGED <<open_cells, flagged_cells, cells, ret, ncalls, prev, prev_call, returned>>

\* One iteration of both placement loops, the two draws naming the same cell:
\* the position (rand_width, rand_height) of lib.rs read as (row, col) is the
\* cell at index row*width+col of minesweeper.rs.
Eq_place ==
    /\ board = "both"
    /\ pc = "placing"
    /\ Cardinality(mines) < mine_count
    /\ Cardinality(mine_pos) < mine_count
    /\ IF width = 0 \/ height = 0
       THEN /\ pc' = "panicked"
            /\ UNCHANGED <<mines, mine_pos>>
       ELSE /\ \E rand_width \in 0..(width - 1), rand_height \in 0..(height - 1),
                  mine \in 0..(height * width - 1) :
                  /\ mine \div width = rand_width
                  /\ mine % width = rand_height
                  /\ mines' = mines \cup {<<rand_width, rand_height>>}
                  /\ mine_pos' = mine_pos \cup {mine}
            /\ UNCHANGED pc
    /\ UNCHANGED <<boardVars, open_cells, flagged_cells, cells, call, ret, ncalls,
                   prev, prev_call, returned>>

\* Both loops are left and both boards returned.
Eq_new_return ==
    /\ board = "both"
    /\ pc = "placing"
    /\ ~(Cardinality(mines) < mine_count)
    /\ ~(Cardinality(mine_pos) < mine_count)
    /\ open_cells' = {}
    /\ flagged_cells' = {}
    /\ cells' = Ms_new_cells(width, height, mine_pos)
    /\ mine_pos' = {}
    /\ pc' = "ready"
    /\ UNCHANGED <<boardVars, mines, call, ret, ncalls, prev, prev_call, returned>>

\* reveal_cell on both boards, for an in-range (row, col).
Eq_reveal_cell(row, col) ==
    /\ board = "both"
    /\ pc = "ready"
    /\ ncalls < CallBudget
    /\ row < height /\ col < width
    /\ open_cells' = open_cells \cup {<<row, col>>}
    /\ cells' = Ms_reveal_cells(row, col)
    /\ ret' = Lib_reveal_result(<<row, col>>)
    /\ call' = Call("reveal_cell", row, col)
    /\ ncalls' = ncalls + 1
    /\ prev' = Snapshot
    /\ prev_call' = call
    /\ returned' = returned \cup {<<<<row, col>>, Lib_reveal_result(<<row, col>>)>>}
    /\ UNCHANGED <<boardVars, pc, mines, flagged_cells, mine_pos>>

\* flag_cell / toggle_flag on both boards, for an in-range (row, col).
Eq_toggle_flag(row, col) ==
    /\ board = "both"
    /\ pc = "ready"
    /\ ncalls < CallBudget
    /\ row < height /\ col < width
    /\ flagged_cells' = Lib_flag_cell_set(flagged_cells, <<row, col>>)
    /\ cells' = Ms_toggle_cells(cells, row, col)
    /\ ret' = Unit
    /\ call' = Call("toggle_flag", row, col)
    /\ ncalls' = ncalls + 1
    /\ prev' = Snapshot
    /\ prev_call' = call
    /\ UNCHANGED <<boardVars, pc, mines, open_cells, mine_pos, returned>>

NextEq ==
    \/ \E w \in Dims, h \in Dims, mc \in MineCounts : Eq_new(w, h, mc)
    \/ Eq_place
    \/ Eq_new_return
    \/ \E row \in Coord, col \in Coord : Eq_reveal_cell(row, col)
    \/ \E row \in Coord, col \in Coord : Eq_toggle_flag(row, col)

SpecEq == Init /\ [][NextEq]_vars

\* minesweeper.rs: the mines as (row, col) positions.
MinePositions(cs) ==
    { <<(i - 1) \div width, (i - 1) % width>> : i \in MineCells(cs) }

\* C17: the two boards, started with the same width, height and mine set and
\* driven by the same in-range reveal / flag-toggle calls, agree on every
\* in-range cell: the same state (lib.rs read as Revealed if in open_cells,
\* else Flagged if in flagged_cells, else Closed) and the same count_mines.
C17_BoardsEquivalent ==
    (board = "both" /\ pc = "ready" /\ mines = MinePositions(cells)) =>
        \A p \in Grid :
            /\ Lib_state(open_cells, flagged_cells, p) = cells[CellAt(p)].state
            /\ Lib_count_mines(p) = Ms_count_mines(p[1], p[2])

\* lib.rs: the in-grid positions whose symbol in the rendered board is "f".
Lib_shown_flagged == { p \in Grid : Lib_fmt[p[1] + 1][p[2] + 1] = "f" }

\* C18 as stated: on the sparse board open_cells and flagged_cells are
\* disjoint after any reveal_cell and flag_cell calls, and flagged_cells.len()
\* is the number of cells displayed as flagged (read for calls on in-grid
\* positions, the reading most favourable to the statement).
C18_OpenFlaggedDisjoint ==
    (/\ board = "sparse" /\ pc = "ready"
     /\ (open_cells \cup flagged_cells) \subseteq Grid)
    =>  /\ open_cells \cap flagged_cells = {}
        /\ Cardinality(flagged_cells) = Cardinality(Lib_shown_flagged)

\* C18, amended: on the sparse board the cells displayed as flagged are
\* exactly the in-grid positions of flagged_cells that are not in open_cells;
\* flagged_cells.len() is never below their number and equals it exactly when
\* every flagged position is in the grid and not open.  The two sets may
\* overlap.
C18_FlaggedShown ==
    (board = "sparse" /\ pc = "ready") =>
        /\ Lib_shown_flagged = (flagged_cells \ open_cells) \cap Grid
        /\ Cardinality(Lib_shown_flagged) <= Cardinality(flagged_cells)
        /\ Cardinality(Lib_shown_flagged) = Cardinality(flagged_cells)
              <=> flagged_cells \subseteq (Grid \ open_cells)

\* C18 witness: an in-grid cell was flagged and then revealed; it is in both
\* sets, flagged_cells.len() is 1 and no cell is displayed as flagged.
C18_Witness ==
    /\ board = "sparse"
    /\ Called("reveal_cell")
    /\ InGrid(call.row, call.col)
    /\ prev_call = Call("toggle_flag", call.row, call.col)
    /\ open_cells = {At}
    /\ flagged_cells = {At}
    /\ Lib_shown_flagged = {}

\* What rendering may show of a sparse board with no open cell, written from
\* the dimensions and the flags alone.
Lib_hidden(flags) ==
    [i \in 1..height |->
        [j \in 1..width |-> IF <<i - 1, j - 1>> \in flags THEN "f" ELSE "#"]]

\* What rendering may show of a dense board with no Revealed cell, written
\* from the dimensions and the cells' states alone (mark: "F" or "#" of the
\* cell at an index).  With width > height > 0 the walk ends on Err after
\* height rows of height symbols.
Ms_hidden(cs) ==
    LET mark(row, col) ==
            IF cs[row * width + col + 1].state = Flagged THEN "F" ELSE "#"
    IN  IF width <= height \/ height = 0
        THEN [kind |-> "Ok",
              out |-> [r \in 1..width |-> [c \in 1..height |-> mark(r - 1, c - 1)]]]
        ELSE [kind |-> "Err",
              out |-> [r \in 1..(height + 1) |->
                          [c \in 1..(IF r <= height THEN height ELSE 0) |->
                              mark(r - 1, c - 1)]]]

\* The calls made so far are toggle_flag calls followed by one render, and
\* there are at most two of them.
OnlyToggledThenRendered ==
    /\ Called("render")
    /\ \/ ncalls = 1
       \/ ncalls = 2 /\ prev_call.op = "toggle_flag"

\* The flags of a sparse board after those toggle_flag calls.
TwinFlags ==
    IF ncalls = 1 THEN {}
    ELSE Lib_flag_cell_set({}, <<prev_call.row, prev_call.col>>)

\* The cells of the dense board without mines after those toggle_flag calls.
TwinCells ==
    IF ncalls = 1 THEN Ms_new_cells(width, height, {})
    ELSE Ms_toggle_cells(Ms_new_cells(width, height, {}),
                         prev_call.row, prev_call.col)

\* C19: rendering shows nothing of the mines under unrevealed cells.  The
\* symbol of a cell that is not Revealed is "#" or the flag letter by its
\* state alone; a board with no Revealed cell renders as a function of its
\* dimensions and flags; and a board driven only by toggle_flag calls renders
\* exactly as the board of the same dimensions without mines driven by the
\* same calls, so two boards that differ only in their mines render alike.
C19_RenderHidesMines ==
    /\ (board = "sparse" /\ pc = "ready") =>
          /\ \A p \in Positions \ open_cells :
                Lib_format_cell(p) = IF p \in flagged_cells THEN "f" ELSE "#"
          /\ (Called("render") /\ open_cells = {}) =>
                ret = [kind |-> "Ok", out |-> Lib_hidden(flagged_cells)]
          /\ OnlyToggledThenRendered =>
                ret = [kind |-> "Ok", out |-> Lib_hidden(TwinFlags)]
    /\ (board = "dense" /\ pc = "ready") =>
          /\ \A p \in Positions :
                (Ms_has_cell(p[1], p[2]) /\ Ms_get_cell(p[1], p[2]).state # Revealed)
                => Ms_symbol(p[1], p[2])
                     = IF Ms_get_cell(p[1], p[2]).state = Flagged THEN "F" ELSE "#"
          /\ (Called("render") /\ \A i \in DOMAIN cells : cells[i].state # Revealed) =>
                ret = Ms_hidden(cells)
          /\ OnlyToggledThenRendered => ret = Ms_hidden(TwinCells)

\* C19 witness: a board with a mine under the flagged cell and a mine under a
\* closed cell was rendered after one toggle_flag call and no reveal_cell.
C19_Witness ==
    /\ OnlyToggledThenRendered
    /\ ncalls = 2
    /\ InGrid(prev_call.row, prev_call.col)
    /\ width > 1 /\ height > 1
    /\ \/ /\ board = "sparse"
          /\ flagged_cells \subseteq mines
          /\ Cardinality(flagged_cells) = 1
          /\ Cardinality(mines \cap Grid) > 1
       \/ /\ board = "dense"
          /\ FlaggedCells(cells) \subseteq MineCells(cells)
          /\ Cardinality(FlaggedCells(cells)) = 1
          /\ Cardinality(MineCells(cells)) > 1

====
